---------------------------- MODULE Spec2Model ----------------------------
(***************************************************************************)
(* Change auditing of redash/models/changes.py: the track_changes          *)
(* decorator (the ChangeTracking subclass with its class-level __changes__ *)
(* dictionary, __setattr__ and record_changes), get_object_changes,        *)
(* get_relation_attr and the Change rows added to the session.             *)
(***************************************************************************)
EXTENDS Integers, Sequences, FiniteSets, TLC

\* ------------------------------------------------------------------ bounds
\* Values written to attributes are 1..MaxVal.
MaxVal == 2
\* Number of calls (writes, extractions, record calls, session changes) in a run.
MaxSteps == 4

Values == 1..MaxVal

\* Python's None as an attribute value, and "the attribute does not exist".
NoneVal == 0
Absent == -1

\* ----------------------------------------------------------------- objects
\* Instances of the class returned by the decorator (ChangeTracking(cls)).
Instances == {"A", "B"}
\* Instances of the parent type.
Parents == {"P1", "P2"}
Objects == Instances \cup Parents
Users == {"u1"}

\* Change.Type
Created == "created"
Modified == "modified"
Deleted == "deleted"
ChangeTypes == {Created, Modified, Deleted}

\* Attribute names of the instances. name and rev are content attributes.
Excluded == {"id", "created_at", "updated_at", "version"}
Content == {"name", "rev"}
AttrNames == Content \cup Excluded

\* Types that relationships can target.
Cls == "LineItem"
ParentType == "Order"
OtherType == "User"
NoParent == "NoParent"

\* None used as a dictionary key / attribute name.
NoneKey == "None"

EmptyDict == [k \in {} |-> NoneVal]

\* ----------------------------------------------------------- configuration
\* What the decorator is applied with and what inspect() reports for the
\* types: the attributes the type has, the caller's attribute list, the parent
\* type, the relationships of cls and of the parent type in mapper order, and
\* the column name of each column attribute. Every attribute has its own column.
IdColumns(names) == [k \in names |-> k]

Configs ==
    { \* no parent; the caller lists every attribute, the excluded ones too
      [attrs |-> {"name"} \cup Excluded,
       attributes |-> {"name"} \cup Excluded, parent |-> NoParent,
       rels |-> [c \in {Cls, ParentType} |-> << >>],
       columns |-> ("name" :> "title") @@ IdColumns(Excluded)],
      \* no parent; a type without version attribute that stores rev in a
      \* column named "version"
      [attrs |-> Content \cup {"id"},
       attributes |-> Content, parent |-> NoParent,
       rels |-> [c \in {Cls, ParentType} |-> << >>],
       columns |-> ("name" :> "title") @@ ("rev" :> "version") @@ IdColumns({"id"})],
      \* parent with relationships in both directions (two of the parent's
      \* relationships target cls); rev is not a column attribute
      [attrs |-> Content \cup {"id", "version"},
       attributes |-> Content \cup {"id"}, parent |-> ParentType,
       rels |-> [c \in {Cls, ParentType} |->
                   IF c = ParentType
                   THEN << [key |-> "owner", target |-> OtherType],
                           [key |-> "items", target |-> Cls],
                           [key |-> "archived_items", target |-> Cls] >>
                   ELSE << [key |-> "owner", target |-> OtherType],
                           [key |-> "order", target |-> ParentType] >>],
       columns |-> ("name" :> "title") @@ IdColumns({"id", "version"})],
      \* parent configured, cls has no relationship back to it
      [attrs |-> {"name", "id", "version"},
       attributes |-> {"name"}, parent |-> ParentType,
       rels |-> [c \in {Cls, ParentType} |->
                   IF c = ParentType
                   THEN << [key |-> "items", target |-> Cls] >>
                   ELSE << [key |-> "owner", target |-> OtherType] >>],
       columns |-> ("name" :> "title") @@ IdColumns({"id", "version"})],
      \* parent configured, the parent type has no relationship to cls
      [attrs |-> {"name", "id", "version"},
       attributes |-> {"name"}, parent |-> ParentType,
       rels |-> [c \in {Cls, ParentType} |->
                   IF c = ParentType
                   THEN << [key |-> "owner", target |-> OtherType] >>
                   ELSE << [key |-> "order", target |-> ParentType] >>],
       columns |-> ("name" :> "title") @@ IdColumns({"id", "version"})],
      \* parent configured, no relationship in either direction
      [attrs |-> {"name", "id", "version"},
       attributes |-> {"name"}, parent |-> ParentType,
       rels |-> [c \in {Cls, ParentType} |->
                   << [key |-> "owner", target |-> OtherType] >>],
       columns |-> ("name" :> "title") @@ IdColumns({"id", "version"})] }

VARIABLES
    config,      \* the configuration the decorator was applied with (fixed)
    fields,      \* fields[o][k]: value of attribute k of object o
    related,     \* related[i]: the parent instance cls's relationship leads to
    changes,     \* ChangeTracking.__changes__: one dictionary on the class
    session,     \* session[i]: object_session(i) is a session
    staged,      \* the Change objects given to session.add, in order
    held,        \* the positions in staged of the entries whose change objects
                 \* are still values of __changes__
    result,      \* the dictionary get_object_changes returned last
    found,       \* what Change.last_change returned last: a position in the
                 \* ledger, or NotFound
    raised,      \* the exception the last call ended with
    last,        \* the last call, its arguments, the call it came after, and
                 \* for an extraction or record call whether the instance had
                 \* a session and the keys that were pending
    since_flush, \* history: per instance and tracked key, the value held before
                 \* the first write since the dictionary was last cleared, and
                 \* the value written last, and whether a write changed the value
    steps

vars == << config, fields, related, changes, session, staged, held, result,
           found, raised, last, since_flush, steps >>

NoError == "none"
TypeError == "TypeError"

\* ------------------------------------------------------------ track_changes
\* Mutant: the excluded names are not subtracted.
track_changes_keeps_excluded(attributes) == attributes

\* attributes = set(attributes) - {"id", "created_at", "updated_at", "version"}
track_changes(attributes) == attributes \ Excluded

attributes == track_changes(config.attributes)
parent == config.parent

\* ------------------------------------------------------------- __setattr__
\* self.__changes__ of any instance is the class attribute: no code assigns
\* an instance attribute of that name.
instance_changes(self) == changes

\* getattr(self, key)
getattr(self, key) == fields[self][key]

\* Mutant: a pending change keeps the current value of the first write.
setattr_change_keeps_current(chg, self, key, value) ==
    IF key \in DOMAIN chg
    THEN chg[key]
    ELSE [previous |-> getattr(self, key), current |-> value]

\* The change entry after a write of value to key (lines 95-99).
setattr_change(chg, self, key, value) ==
    LET change == IF key \in DOMAIN chg
                  THEN chg[key]
                  ELSE [previous |-> getattr(self, key), current |-> NoneVal]
    IN [change EXCEPT !.current = value]

\* columns.get(key, key)
column_of(columns, key) == IF key \in DOMAIN columns THEN columns[key] ELSE key

NoCall == [op |-> "init", self |-> "-", key |-> "-", value |-> NoneVal,
           user |-> "-", type |-> "-", reset |-> FALSE, attached |-> FALSE,
           pending |-> {}, after |-> "-"]

Flushed == [i \in Instances |-> EmptyDict]

\* change["current"] = value seen through a staged entry that holds the same
\* change object under column col.
seen_through(e, col, value) ==
    IF parent # NoParent
    THEN LET k == CHOOSE k \in DOMAIN e.change.changes : TRUE
         IN IF col \in DOMAIN e.change.changes[k][1].changes
            THEN [e EXCEPT !.change.changes[k][1].changes[col].current = value]
            ELSE e
    ELSE IF col \in DOMAIN e.change.changes
         THEN [e EXCEPT !.change.changes[col].current = value]
         ELSE e

\* Mutant: the write is applied only to attributes that are not tracked.
super_setattr_else(flds, self, key, value) ==
    IF key \in attributes THEN flds ELSE [flds EXCEPT ![self][key] = value]

\* super(ChangeTracking, self).__setattr__(key, value)
super_setattr(flds, self, key, value) == [flds EXCEPT ![self][key] = value]

setattr(self, key, value) ==
    /\ steps < MaxSteps
    /\ key \in config.attrs
    /\ steps' = steps + 1
    /\ last' = [NoCall EXCEPT !.after = last.op, !.op = "setattr",
                              !.self = self, !.key = key, !.value = value]
    /\ IF key \in attributes
       THEN LET change == setattr_change(instance_changes(self), self, key, value)
            IN /\ changes' = (key :> change) @@ changes
               \* a dictionary returned with reset=False holds the same
               \* change objects as __changes__: the write shows through
               /\ result' =
                    IF result.live /\ key \in DOMAIN changes
                       /\ column_of(config.columns, key) \in DOMAIN result.ret
                    THEN [result EXCEPT
                            !.ret[column_of(config.columns, key)].current = value]
                    ELSE result
               /\ since_flush' =
                    [since_flush EXCEPT ![self] =
                        (key :> [before |-> IF key \in DOMAIN since_flush[self]
                                            THEN since_flush[self][key].before
                                            ELSE fields[self][key],
                                 written |-> value,
                                 moved |-> \/ value # fields[self][key]
                                           \/ /\ key \in DOMAIN since_flush[self]
                                              /\ since_flush[self][key].moved])
                        @@ since_flush[self]]
               /\ staged' =
                    [n \in DOMAIN staged |->
                        IF n \in held /\ key \in DOMAIN changes
                        THEN seen_through(staged[n],
                                          column_of(config.columns, key), value)
                        ELSE staged[n]]
       ELSE UNCHANGED << changes, result, since_flush, staged >>
    /\ fields' = super_setattr(fields, self, key, value)
    /\ raised' = NoError
    /\ UNCHANGED << config, related, session, held, found >>

\* ------------------------------------------------------ get_object_changes
\* Mutant: entries whose current equals previous are kept.
get_object_changes_unfiltered(chg, columns) ==
    LET cols == {column_of(columns, k) : k \in DOMAIN chg}
    IN [c \in cols |-> chg[CHOOSE k \in DOMAIN chg : column_of(columns, k) = c]]

\* The dictionary built by lines 59-71: one entry per key of chg whose current
\* differs from previous, stored under the key's column name.
get_object_changes(chg, columns) ==
    LET kept == {k \in DOMAIN chg : chg[k].current # chg[k].previous}
        cols == {column_of(columns, k) : k \in kept}
    IN [c \in cols |-> chg[CHOOSE k \in kept : column_of(columns, k) = c]]

\* Mutant: the dictionary is never cleared.
after_extraction_keeps(chg, reset) == chg

\* if reset: changes.clear()   (inside "if changes:")
after_extraction(chg, reset) == IF reset THEN EmptyDict ELSE chg

ExtractChanges(self, reset) ==
    /\ steps < MaxSteps
    /\ steps' = steps + 1
    /\ last' = [NoCall EXCEPT !.after = last.op, !.op = "get_object_changes",
                              !.self = self,
                              !.reset = reset, !.attached = session[self],
                              !.pending = DOMAIN instance_changes(self)]
    /\ result' = [ret |-> get_object_changes(instance_changes(self), config.columns),
                  live |-> ~reset]
    /\ changes' = after_extraction(instance_changes(self), reset)
    /\ held' = IF DOMAIN changes' = {} THEN {} ELSE held
    /\ since_flush' = IF reset THEN Flushed ELSE since_flush
    /\ raised' = NoError
    /\ UNCHANGED << config, fields, related, session, staged, found >>

\* -------------------------------------------------------- get_relation_attr
RECURSIVE first_match(_, _, _)
first_match(rels, target, n) ==
    IF n > Len(rels) THEN NoneKey
    ELSE IF rels[n].target = target THEN rels[n].key
    ELSE first_match(rels, target, n + 1)

\* The key of the first relationship of source whose entity is target, else None.
get_relation_attr(source, target) == first_match(config.rels[source], target, 1)

\* ----------------------------------------------------------- record_changes
\* Mutant: the session is not looked at.
no_session_ignored(self) == FALSE

\* session = object_session(self); if not session: return
no_session(self) == ~session[self]

\* Mutant: the empty change set is skipped for the wrong change type.
nothing_to_record_created(chg, change_type) ==
    DOMAIN chg = {} /\ change_type = Created

\* if not changes and (change_type == Change.Type.Modified): return
nothing_to_record(chg, change_type) == DOMAIN chg = {} /\ change_type = Modified

\* getattr(self, "version", None)
version_of(self) ==
    IF fields[self]["version"] = Absent THEN NoneVal ELSE fields[self]["version"]

\* Mutant: the wrapping record carries the change type of the call.
record_payload_outer_type(self, chg, change_type) ==
    IF parent = NoParent
    THEN [type |-> change_type, changes |-> chg]
    ELSE [type |-> change_type,
          changes |-> (get_relation_attr(parent, Cls) :>
                         << [type |-> change_type, changes |-> chg,
                             id |-> [previous |-> fields[self]["id"],
                                     current |-> fields[self]["id"]]] >>)]

\* The change payload of lines 115-131.
record_payload(self, chg, change_type) ==
    IF parent = NoParent
    THEN [type |-> change_type, changes |-> chg]
    ELSE [type |-> Modified,
          changes |-> (get_relation_attr(parent, Cls) :>
                         << [type |-> change_type, changes |-> chg,
                             id |-> [previous |-> fields[self]["id"],
                                     current |-> fields[self]["id"]]] >>)]

\* obj of lines 114 and 133-134; getattr(self, None, self) raises TypeError.
back_attr == get_relation_attr(Cls, parent)
record_raises == parent # NoParent /\ back_attr = NoneKey
record_object(self) == IF parent = NoParent THEN self ELSE related[self]

\* The generic foreign key of GFKBase: setting object stores the table name
\* of the object's class and the object's id.
type_of(obj) == IF obj \in Instances THEN Cls ELSE ParentType

\* Change(object=obj, object_version=getattr(self, "version", None),
\*        user=changed_by, change=changes)
Change(self, changed_by, chg, change_type) ==
    [object |-> record_object(self),
     object_type |-> type_of(record_object(self)),
     object_id |-> fields[record_object(self)]["id"],
     object_version |-> version_of(self),
     user |-> changed_by,
     change |-> record_payload(self, chg, change_type)]

record_changes(self, changed_by, change_type) ==
    /\ steps < MaxSteps
    /\ steps' = steps + 1
    /\ last' = [NoCall EXCEPT !.after = last.op, !.op = "record_changes",
                              !.self = self,
                              !.user = changed_by, !.type = change_type,
                              !.attached = session[self],
                              !.pending = DOMAIN instance_changes(self)]
    /\ UNCHANGED << config, fields, related, session, found >>
    /\ IF no_session(self)
       THEN /\ raised' = NoError
            /\ UNCHANGED << changes, staged, held, result, since_flush >>
       ELSE LET chg == get_object_changes(instance_changes(self), config.columns)
            IN /\ changes' = after_extraction(instance_changes(self), TRUE)
               /\ result' = [ret |-> chg, live |-> FALSE]
               /\ since_flush' = Flushed
               /\ IF nothing_to_record(chg, change_type)
                  THEN /\ raised' = NoError
                       /\ staged' = staged
                  ELSE IF record_raises
                  THEN /\ raised' = TypeError
                       /\ staged' = staged
                  ELSE /\ raised' = NoError
                       /\ staged' = Append(staged,
                                      Change(self, changed_by, chg, change_type))
               /\ held' = IF DOMAIN changes' = {} THEN {}
                          ELSE held \cup (DOMAIN staged' \ DOMAIN staged)

\* -------------------------------------------------------------- last_change
NotFound == 0

\* The rows the query sees: the session flushes the added Change objects
\* before it runs the query.
ledger == staged

\* Mutant: the order is ascending.
last_change_ascending(rows, obj) ==
    LET matching == {n \in DOMAIN rows :
                        /\ rows[n].object_id = fields[obj]["id"]
                        /\ rows[n].object_type = type_of(obj)}
    IN IF matching = {} THEN {NotFound}
       ELSE {n \in matching :
               \A m \in matching : rows[n].object_version <= rows[m].object_version}

\* The rows .first() can return: the rows of obj's id and table name that no
\* other such row precedes in descending object_version order (None counts as
\* NoneVal; rows of one object either all have a version or none has), or
\* NotFound.
last_change(rows, obj) ==
    LET matching == {n \in DOMAIN rows :
                        /\ rows[n].object_id = fields[obj]["id"]
                        /\ rows[n].object_type = type_of(obj)}
    IN IF matching = {} THEN {NotFound}
       ELSE {n \in matching :
               \A m \in matching : rows[m].object_version <= rows[n].object_version}

LastChange(obj) ==
    /\ steps < MaxSteps
    /\ steps' = steps + 1
    /\ found' \in last_change(ledger, obj)
    /\ last' = [NoCall EXCEPT !.after = last.op, !.op = "last_change",
                              !.self = obj]
    /\ raised' = NoError
    /\ UNCHANGED << config, fields, related, changes, session, staged, held,
                    result, since_flush >>

\* ------------------------------------------------------------------ session
\* The host adds the instance to a session: object_session(self) is set.
session_add(self) ==
    /\ steps < MaxSteps
    /\ ~session[self]
    /\ steps' = steps + 1
    /\ session' = [session EXCEPT ![self] = TRUE]
    /\ last' = [NoCall EXCEPT !.after = last.op, !.op = "session_add",
                              !.self = self]
    /\ raised' = NoError
    /\ UNCHANGED << config, fields, related, changes, staged, held, result,
                    found, since_flush >>

\* --------------------------------------------------------------------- Init
InitFields(cfg) ==
    [o \in Objects |->
        [k \in AttrNames |->
            CASE k = "id" -> IF o \in {"A", "P1"} THEN 1 ELSE 2
              [] k = "version" /\ o \in Parents -> 2
              [] k \notin cfg.attrs /\ o \in Instances -> Absent
              [] OTHER -> 1]]

Init ==
    /\ config \in Configs
    /\ fields = InitFields(config)
    /\ related = [i \in Instances |-> IF i = "A" THEN "P1" ELSE "P2"]
    /\ changes = EmptyDict
    /\ session = [i \in Instances |-> i = "A"]
    /\ staged = << >>
    /\ held = {}
    /\ found = NotFound
    /\ result = [ret |-> EmptyDict, live |-> FALSE]
    /\ raised = NoError
    /\ last = NoCall
    /\ since_flush = Flushed
    /\ steps = 0

Next ==
    \/ \E self \in Instances, key \in AttrNames, value \in Values :
          setattr(self, key, value)
    \/ \E self \in Instances, reset \in BOOLEAN : ExtractChanges(self, reset)
    \/ \E self \in Instances, changed_by \in Users, change_type \in ChangeTypes :
          record_changes(self, changed_by, change_type)
    \/ \E self \in Instances : session_add(self)

Spec == Init /\ [][Next]_vars

\* The calls that fill the ledger, and the query on it.
NextLedger ==
    \/ \E self \in Instances, key \in AttrNames, value \in Values :
          setattr(self, key, value)
    \/ \E self \in Instances, changed_by \in Users, change_type \in ChangeTypes :
          record_changes(self, changed_by, change_type)
    \/ \E self \in Instances : session_add(self)
    \/ \E obj \in Objects : LastChange(obj)

SpecLedger == Init /\ [][NextLedger]_vars

\* One tracked instance: it alone is written and recorded, and the pending
\* diff is consumed by record_changes only (extractions do not reset).
Single == "A"

NextSingle ==
    \/ \E key \in AttrNames, value \in Values : setattr(Single, key, value)
    \/ ExtractChanges(Single, FALSE)
    \/ \E changed_by \in Users, change_type \in ChangeTypes :
          record_changes(Single, changed_by, change_type)

SpecSingle == Init /\ [][NextSingle]_vars

\* ================================================================== claims
Newest(entries) == entries[Len(entries)]

\* The change set a staged entry carries: the payload's changes, or with a
\* parent configured the changes of the nested record.
entry_change_set(e) ==
    IF parent = NoParent
    THEN e.change.changes
    ELSE LET k == CHOOSE k \in DOMAIN e.change.changes : TRUE
         IN e.change.changes[k][1].changes

RecordCalled == last.op = "record_changes"

\* C1: between two clearings of the pending diff, for every instance and
\* tracked attribute written since the last clearing, the buffered entry has
\* previous = the value the instance held before its first such write and
\* current = the value of its last such write.
C1_WritesCollapse ==
    \A i \in Instances : \A k \in DOMAIN since_flush[i] :
        /\ k \in DOMAIN instance_changes(i)
        /\ instance_changes(i)[k].previous = since_flush[i][k].before
        /\ instance_changes(i)[k].current = since_flush[i][k].written

\* C2: a write to a tracked attribute of one instance leaves the pending diff
\* of every other instance as it was, and an extraction or record call on an
\* instance that has no write of its own pending reports nothing and consumes
\* no write of another instance.
C2_DiffOwnedByInstance ==
    [][ /\ \A i \in Instances :
              (last'.op = "setattr" /\ last'.self = i /\ last'.key \in attributes)
              => \A j \in Instances \ {i} :
                     instance_changes(j)' = instance_changes(j)
        /\ \A j \in Instances :
              ( /\ last'.op \in {"get_object_changes", "record_changes"}
                /\ last'.self = j
                /\ DOMAIN since_flush[j] = {} )
              => /\ DOMAIN get_object_changes(instance_changes(j), config.columns) = {}
                 /\ since_flush' = since_flush ]_vars

\* C3: no staged entry of type Modified has an empty changes payload, and a
\* record call with type Modified whose extracted change set is empty stages
\* nothing.
C3_NoEmptyModified ==
    [][ /\ \A n \in 1..Len(staged') :
              staged'[n].change.type = Modified
              => DOMAIN staged'[n].change.changes # {}
        /\ ( /\ last'.op = "record_changes"
             /\ last'.type = Modified
             /\ \A k \in DOMAIN changes : changes[k].current = changes[k].previous )
           => staged' = staged ]_vars

\* A Modified record call on an attached instance found only an attribute
\* written back to its previous value, and staged nothing.
C3_Witness ==
    /\ RecordCalled /\ last.type = Modified /\ last.attached
    /\ last.pending # {} /\ DOMAIN result.ret = {}
    /\ staged = << >> /\ DOMAIN changes = {}

\* C4: a record call with type Created or Deleted on an attached instance
\* stages exactly one entry, also with an empty change set; with no parent
\* its payload is {type: change type, changes: the change set}.
C4_CreatedDeletedAlwaysStaged ==
    [][ ( /\ last'.op = "record_changes"
          /\ last'.attached
          /\ last'.type \in {Created, Deleted} )
        => /\ Len(staged') = Len(staged) + 1
           /\ SubSeq(staged', 1, Len(staged)) = staged
           /\ parent = NoParent
              => Newest(staged').change =
                   [type |-> last'.type,
                    changes |-> get_object_changes(changes, config.columns)] ]_vars

\* C5: a record call on an instance without session stages nothing and raises
\* nothing, whatever the change type.
C5_DetachedIsNoOp ==
    [][ (last'.op = "record_changes" /\ ~last'.attached)
        => /\ staged' = staged
           /\ raised' = NoError ]_vars

\* A Created record call on an instance without session, with writes pending.
C5_Witness ==
    /\ RecordCalled /\ ~last.attached /\ last.type = Created
    /\ last.pending # {} /\ DOMAIN changes # {} /\ staged = << >>

\* C6: with a parent configured, a relationship of the parent type targeting
\* cls and a relationship of cls targeting the parent type, a record call on an
\* attached instance that is not an empty Modified stages one entry whose
\* subject is the parent instance the relationship leads to and whose payload is
\* {type: Modified, changes: {parentAttr: [{type: change type, changes: the
\* extracted change set, id: {previous: id, current: id}}]}}.
C6_ParentRedirect ==
    [][ ( /\ last'.op = "record_changes"
          /\ last'.attached
          /\ parent # NoParent
          /\ \E n \in DOMAIN config.rels[parent] : config.rels[parent][n].target = Cls
          /\ \E n \in DOMAIN config.rels[Cls] : config.rels[Cls][n].target = parent
          /\ ~( last'.type = Modified
                /\ \A k \in DOMAIN changes : changes[k].current = changes[k].previous ) )
        => /\ Len(staged') = Len(staged) + 1
           /\ SubSeq(staged', 1, Len(staged)) = staged
           /\ Newest(staged').object = related[last'.self]
           /\ Newest(staged').change.type = Modified
           /\ \E n \in DOMAIN config.rels[parent] :
                 /\ config.rels[parent][n].target = Cls
                 /\ Newest(staged').change.changes =
                      ( config.rels[parent][n].key :>
                          << [type |-> last'.type,
                              changes |-> get_object_changes(changes, config.columns),
                              id |-> [previous |-> fields[last'.self]["id"],
                                      current |-> fields[last'.self]["id"]]] >> ) ]_vars

\* A Deleted record call of a child with a change staged an entry on its parent.
C6_Witness ==
    /\ RecordCalled /\ last.attached /\ last.type = Deleted
    /\ parent # NoParent /\ back_attr # NoneKey
    /\ get_relation_attr(parent, Cls) # NoneKey
    /\ Len(staged) >= 1
    /\ Newest(staged).object \in Parents
    /\ DOMAIN entry_change_set(Newest(staged)) # {}

\* C7: with a parent configured and no relationship of cls targeting the
\* parent type, a record call that has something to record raises nothing and
\* stages the entry with the instance itself as subject.
C7_FallbackToSelf ==
    [][ ( /\ last'.op = "record_changes"
          /\ last'.attached
          /\ parent # NoParent
          /\ ~ \E n \in DOMAIN config.rels[Cls] : config.rels[Cls][n].target = parent
          /\ ~( last'.type = Modified
                /\ \A k \in DOMAIN changes : changes[k].current = changes[k].previous ) )
        => /\ raised' = NoError
           /\ Len(staged') = Len(staged) + 1
           /\ Newest(staged').object = last'.self ]_vars

\* C8: every entry is staged with the version of its own subject at the time
\* of the record call (None when the subject has no version attribute).
C8_VersionOfSubject ==
    [][ Len(staged') = Len(staged) + 1
        => Newest(staged').object_version = version_of(Newest(staged').object) ]_vars

\* C9 as stated: id, created_at, updated_at and version are never keys of the
\* pending diff, of a returned change set or of a staged change set.
C9_ExcludedNeverKeys ==
    /\ DOMAIN changes \cap Excluded = {}
    /\ DOMAIN result.ret \cap Excluded = {}
    /\ \A n \in 1..Len(staged) :
          DOMAIN entry_change_set(staged[n]) \cap Excluded = {}

\* C9 amended: id, created_at, updated_at and version are never keys of the
\* pending diff, and every key of a returned or staged change set is the
\* column name (the logical name when it has no column) of an attribute the
\* caller listed other than those four.
StoredNames ==
    { IF k \in DOMAIN config.columns THEN config.columns[k] ELSE k :
        k \in config.attributes \ Excluded }

C9_ExcludedAttributesUntracked ==
    /\ DOMAIN changes \cap Excluded = {}
    /\ DOMAIN changes \subseteq config.attributes
    /\ DOMAIN result.ret \subseteq StoredNames
    /\ \A n \in 1..Len(staged) :
          DOMAIN entry_change_set(staged[n]) \subseteq StoredNames

\* The caller listed the excluded names; version was written while a change
\* of another attribute is pending, and a change set has been staged.
C9_Witness ==
    /\ Excluded \subseteq config.attributes
    /\ last.op = "setattr" /\ last.key = "version"
    /\ fields[last.self]["version"] = 2
    /\ DOMAIN changes # {}
    /\ Len(staged) >= 1

\* C10: an extraction returns exactly one entry for each buffered attribute
\* whose current differs from its previous, under the attribute's column name
\* (its logical name when it has no column), and none for an attribute whose
\* current equals its previous; with every buffered attribute back at its
\* previous value the result is empty.
C10_ExtractedChanges ==
    [][ last'.op = "get_object_changes"
        => LET differing == {k \in DOMAIN changes :
                                changes[k].current # changes[k].previous}
               stored(k) == IF k \in DOMAIN config.columns
                            THEN config.columns[k] ELSE k
           IN /\ \A k \in differing :
                    /\ stored(k) \in DOMAIN result'.ret
                    /\ result'.ret[stored(k)] = changes[k]
              /\ DOMAIN result'.ret = {stored(k) : k \in differing}
              /\ Cardinality(DOMAIN result'.ret) = Cardinality(differing)
              /\ differing = {} => result'.ret = EmptyDict ]_vars

\* An extraction with one attribute set and reverted and another one changed:
\* only the changed one is returned.
C10_Witness ==
    /\ last.op = "get_object_changes" /\ ~last.reset
    /\ \E k \in DOMAIN changes :
          /\ changes[k].current = changes[k].previous
          /\ k \in DOMAIN since_flush[last.self]
          /\ since_flush[last.self][k].moved
          /\ fields[last.self][k] = changes[k].previous
    /\ Cardinality(DOMAIN changes) = 2
    /\ Cardinality(DOMAIN result.ret) = 1

\* C11: an extraction with reset empties the pending diff and one without
\* reset leaves it as it was; an extraction that directly follows another one
\* returns the empty dictionary if the first one reset, and the change set the
\* first one returned if it did not.
C11_ResetOrKeep ==
    [][ last'.op = "get_object_changes"
        => /\ IF last'.reset THEN DOMAIN changes' = {} ELSE changes' = changes
           /\ last.op = "get_object_changes"
              => IF last.reset
                 THEN result'.ret = EmptyDict
                 ELSE result'.ret = result.ret /\ DOMAIN result.ret = DOMAIN result'.ret
       ]_vars

\* A second extraction directly after one without reset returned a change
\* again; the diff is still pending.
C11_Witness ==
    /\ last.op = "get_object_changes" /\ last.after = "get_object_changes"
    /\ DOMAIN result.ret # {}
    /\ DOMAIN changes = last.pending
    /\ ~last.reset

\* C12: a call adds at most one entry to the staged ones, only a record call
\* adds one, and no call changes or removes an entry staged before.
C12_AppendOnly ==
    [][ /\ Len(staged') \in {Len(staged), Len(staged) + 1}
        /\ SubSeq(staged', 1, Len(staged)) = staged
        /\ Len(staged') > Len(staged) => last'.op = "record_changes" ]_vars

\* A tracked attribute was written again after its change had been staged:
\* the staged entry still shows the value recorded.
C12_Witness ==
    /\ last.op = "setattr" /\ last.key \in attributes
    /\ last.after = "record_changes"
    /\ Len(staged) >= 1
    /\ LET col == column_of(config.columns, last.key)
           chg == entry_change_set(Newest(staged))
       IN col \in DOMAIN chg /\ chg[col].current # last.value

\* C13: last_change(obj) returns nothing when the ledger has no entry of
\* obj's type and id, and otherwise an entry of that type and id whose
\* object_version no other entry of that type and id exceeds.
C13_LatestEntry ==
    last.op = "last_change"
    => LET same == {n \in 1..Len(staged) :
                       /\ staged[n].object_type = type_of(last.self)
                       /\ staged[n].object_id = fields[last.self]["id"]}
       IN IF same = {}
          THEN found = NotFound
          ELSE /\ found \in same
               /\ \A n \in same :
                     staged[n].object_version <= staged[found].object_version

\* The query returned the entry of the higher version of two entries of the
\* object.
C13_Witness ==
    /\ last.op = "last_change" /\ found # NotFound
    /\ \E n \in 1..Len(staged) :
          /\ staged[n].object_type = type_of(last.self)
          /\ staged[n].object_id = fields[last.self]["id"]
          /\ staged[n].object_version < staged[found].object_version

C15_MissingForwardIsNonFatal ==
    [][ ( /\ last'.op = "record_changes"
          /\ last'.attached
          /\ parent # NoParent
          /\ ~ \E n \in DOMAIN config.rels[parent] : config.rels[parent][n].target = Cls
          /\ ~( last'.type = Modified
                /\ \A k \in DOMAIN changes : changes[k].current = changes[k].previous ) )
        => /\ raised' = NoError
           /\ Len(staged') = Len(staged) + 1
           /\ Newest(staged').change =
                [type |-> Modified,
                 changes |->
                   ( NoneKey :>
                       << [type |-> last'.type,
                           changes |-> get_object_changes(changes, config.columns),
                           id |-> [previous |-> fields[last'.self]["id"],
                                   current |-> fields[last'.self]["id"]]] >> )] ]_vars

\* C16: for a single tracked instance written only through __setattr__ and
\* consumed only by record_changes, in every staged entry the previous value
\* of an attribute is the current value of that attribute in the latest earlier
\* entry that has it, and when an entry is staged the current value of each of
\* its attributes is the value the instance holds.
C16_ConsistentHistory ==
    [][ /\ \A n \in 1..Len(staged') :
              LET chg == entry_change_set(staged'[n])
              IN \A col \in DOMAIN chg :
                    LET earlier == {m \in 1..(n - 1) :
                                       col \in DOMAIN entry_change_set(staged'[m])}
                    IN earlier # {}
                       => LET m == CHOOSE m \in earlier : \A x \in earlier : x <= m
                          IN chg[col].previous =
                               entry_change_set(staged'[m])[col].current
        /\ Len(staged') = Len(staged) + 1
           => LET chg == entry_change_set(Newest(staged'))
              IN \A k \in attributes :
                    LET col == IF k \in DOMAIN config.columns
                               THEN config.columns[k] ELSE k
                    IN col \in DOMAIN chg
                       => chg[col].current = fields[last'.self][k] ]_vars

\* Two entries of the instance with the same attribute: the second continues
\* the first.
C16_Witness ==
    /\ Len(staged) = 2
    /\ \E col \in DOMAIN entry_change_set(staged[1]) :
          /\ col \in DOMAIN entry_change_set(staged[2])
          /\ entry_change_set(staged[2])[col].previous =
               entry_change_set(staged[1])[col].current
          /\ entry_change_set(staged[2])[col].current =
               entry_change_set(staged[1])[col].previous

\* C17: a record call on an instance without session leaves the pending diff
\* as it was, and the record call that follows the instance's attachment
\* stages an entry reporting every attribute the instance changed while it had
\* no session, with the value it held before the first of those writes as
\* previous and the last value written as current.
C17_DetachedWritesKept ==
    [][ /\ (last'.op = "record_changes" /\ ~last'.attached) => changes' = changes
        /\ ( /\ last.op = "session_add"
             /\ last'.op = "record_changes"
             /\ last'.self = last.self )
           => \A k \in DOMAIN since_flush[last.self] :
                 since_flush[last.self][k].before # since_flush[last.self][k].written
                 => /\ Len(staged') = Len(staged) + 1
                    /\ LET chg == entry_change_set(Newest(staged'))
                           col == IF k \in DOMAIN config.columns
                                  THEN config.columns[k] ELSE k
                       IN /\ col \in DOMAIN chg
                          /\ chg[col] =
                               [previous |-> since_flush[last.self][k].before,
                                current |-> since_flush[last.self][k].written] ]_vars

\* C18: after a record call on an instance with session the pending diff is
\* empty, also when the call staged nothing, and a Modified record call that
\* directly follows such a call stages nothing.
C18_RecordedOnce ==
    [][ /\ (last'.op = "record_changes" /\ last'.attached) => DOMAIN changes' = {}
        /\ ( /\ last.op = "record_changes" /\ last.attached
             /\ last'.op = "record_changes" /\ last'.type = Modified )
           => staged' = staged ]_vars

\* A change was staged by a record call, and the Modified record call right
\* after it added nothing.
C18_Witness ==
    /\ last.op = "record_changes" /\ last.after = "record_changes"
    /\ last.attached /\ last.type = Modified
    /\ Len(staged) = 1
    /\ DOMAIN entry_change_set(staged[1]) # {}
    /\ DOMAIN changes = {}

\* C19: a write to an attribute outside the caller's list minus id,
\* created_at, updated_at and version leaves the pending diff and the staged
\* entries as they were, and with nothing pending before it a Modified record
\* call that directly follows it stages nothing.
C19_UntrackedWrite ==
    [][ /\ ( /\ last'.op = "setattr"
             /\ last'.key \notin (config.attributes \ Excluded) )
           => /\ changes' = changes
              /\ staged' = staged
        /\ ( /\ last.op = "setattr"
             /\ last.key \notin (config.attributes \ Excluded)
             /\ DOMAIN changes = {}
             /\ last'.op = "record_changes" /\ last'.type = Modified )
           => staged' = staged ]_vars

\* An excluded attribute the caller listed was written and changed, and the
\* Modified record call after it staged nothing.
C19_Witness ==
    /\ last.op = "record_changes" /\ last.after = "setattr"
    /\ last.attached /\ last.type = Modified
    /\ "version" \in config.attributes
    /\ fields[last.self]["version"] = 2
    /\ steps = 2 /\ staged = << >>
=============================================================================
